---------------------------- MODULE Spec2Model ----------------------------
(***************************************************************************)
(* Model of the gridlock puzzle engine (src/gridlock.js, the final         *)
(* revision of class Level, lines 131-280): Level.parse, Level.pieceAt,    *)
(* Level.canMoveTo, Level.moveByOne and Level.move.                        *)
(*                                                                         *)
(* A description is the text handed to Level.parse: a sequence of          *)
(* one-character strings, rows separated by "\n".  A piece is a record     *)
(* [name, x, y, orientation, size]; a level is [n, pieces] with pieces in  *)
(* the order of Object.values(seen).  A piece is identified by its index   *)
(* in pieces (the JavaScript object identity).                             *)
(***************************************************************************)
EXTENDS Integers, Sequences, FiniteSets, TLC

VARIABLES level, last, game

vars == <<level, last, game>>

HORIZONTAL == "horizontal"
VERTICAL == "vertical"

(***************************************************************************)
(* Bounds of the model.                                                    *)
(***************************************************************************)
\* largest number of non-'.' cells of a description handed to parse alone
MaxCells == 3
\* largest number of non-'.' cells of an enumerated level the engine is run on
MaxEngineCells == 3
\* largest total displacement (in cells) from the parsed example layout
\* from which the example specification still issues calls
MaxDrift == 1
\* largest number of non-'.' cells of an enumerated level a Game is built on
MaxGameCells == 3

\* grid dimensions of the enumerated descriptions
Dims == {2, 3}
\* piece characters of the enumerated descriptions
Names == {"R", "A", "1"}
\* piece characters of the levels the move engine is run on
EngineNames == {"R", "A"}
\* piece characters of the levels a Game is built on (draw has a colour for both)
GameNames == {"R", "B"}

(***************************************************************************)
(* Text helpers: String.prototype.trim and String.prototype.split('\n').   *)
(***************************************************************************)
IsSpace(c) == c \in {" ", "\n", "\t"}

RECURSIVE TrimLeft(_)
TrimLeft(s) ==
    IF s = <<>> THEN s
    ELSE IF IsSpace(Head(s)) THEN TrimLeft(Tail(s)) ELSE s

RECURSIVE TrimRight(_)
TrimRight(s) ==
    IF s = <<>> THEN s
    ELSE IF IsSpace(s[Len(s)]) THEN TrimRight(SubSeq(s, 1, Len(s) - 1)) ELSE s

Trim(s) == TrimRight(TrimLeft(s))

\* s.split('\n'): the rows between the newlines; "" splits into one empty row
RECURSIVE SplitFrom(_, _, _)
SplitFrom(s, i, cur) ==
    IF i > Len(s) THEN <<cur>>
    ELSE IF s[i] = "\n" THEN <<cur>> \o SplitFrom(s, i + 1, <<>>)
    ELSE SplitFrom(s, i + 1, Append(cur, s[i]))

Split(s) == SplitFrom(s, 1, <<>>)

(***************************************************************************)
(* Errors.  kind names the throw statement; x, y are the coordinates the   *)
(* message prints (0 where the message prints none).                       *)
(***************************************************************************)
NoError == [kind |-> "none", x |-> 0, y |-> 0]
ErrorOf(kind, x, y) == [kind |-> kind, x |-> x, y |-> y]

(***************************************************************************)
(* Level.parse                                                             *)
(***************************************************************************)
\* an integer-like property name: Object.values lists these first, ascending
IsIndexKey(k) == k \in {"0", "1", "2", "3", "4", "5", "6", "7", "8", "9"}
IndexOfKey(k) ==
    CASE k = "0" -> 0 [] k = "1" -> 1 [] k = "2" -> 2 [] k = "3" -> 3
      [] k = "4" -> 4 [] k = "5" -> 5 [] k = "6" -> 6 [] k = "7" -> 7
      [] k = "8" -> 8 [] k = "9" -> 9

\* the integer-like keys among ks at or above digit d, ascending
RECURSIVE IndexKeysFrom(_, _)
IndexKeysFrom(ks, d) ==
    IF d > 9 THEN <<>>
    ELSE LET here == {k \in ks : IsIndexKey(k) /\ IndexOfKey(k) = d}
         IN  (IF here = {} THEN <<>> ELSE <<CHOOSE k \in here : TRUE>>)
             \o IndexKeysFrom(ks, d + 1)

\* the entries of order (insertion order) that are not integer-like
RECURSIVE StringKeys(_)
StringKeys(order) ==
    IF order = <<>> THEN <<>>
    ELSE (IF IsIndexKey(Head(order)) THEN <<>> ELSE <<Head(order)>>)
         \o StringKeys(Tail(order))

\* Object.values(seen): seen is the map name -> piece, order its insertion order
ObjectValues(seen, order) ==
    LET keys == IndexKeysFrom({order[i] : i \in 1..Len(order)}, 0)
                \o StringKeys(order)
    IN  [i \in 1..Len(keys) |-> seen[keys[i]]]

NoLevel == [n |-> 0, pieces |-> <<>>]

\* a piece record with the column and the row of its first cell exchanged
NewPiece_Transposed(cell, colIndex, rowIndex) ==
    [name |-> cell, x |-> rowIndex, y |-> colIndex,
     orientation |-> HORIZONTAL, size |-> 1]

\* the record made for a character seen for the first time (lines 181-187)
NewPiece(cell, colIndex, rowIndex) ==
    [name |-> cell, x |-> colIndex, y |-> rowIndex,
     orientation |-> HORIZONTAL, size |-> 1]

\* one cell of the scan (lines 176-197): st = [seen, order, err]
ScanCell(st, cell, colIndex, rowIndex) ==
    IF cell = "." THEN st
    ELSE IF cell \notin DOMAIN st.seen
    THEN [st EXCEPT
            !.seen = [k \in DOMAIN st.seen \cup {cell} |->
                        IF k = cell
                        THEN NewPiece(cell, colIndex, rowIndex)
                        ELSE st.seen[k]],
            !.order = Append(st.order, cell)]
    ELSE LET p == st.seen[cell]
             grown == [p EXCEPT !.size = p.size + 1]
         IN  IF rowIndex = p.y
             THEN [st EXCEPT !.seen[cell] = [grown EXCEPT !.orientation = HORIZONTAL]]
             ELSE IF colIndex = p.x
             THEN [st EXCEPT !.seen[cell] = [grown EXCEPT !.orientation = VERTICAL]]
             ELSE [st EXCEPT !.seen[cell] = grown,
                             !.err = ErrorOf("nonstraight", 0, 0)]

\* a row test that lets rows shorter than n through
BadRow_LongerOnly(row, n) == Len(row) > n

\* the test on each row (line 172): its length is not the number of rows
BadRow(row, n) == Len(row) # n

\* the two nested loops of parse (lines 171-199), from row r (0-based), column c
RECURSIVE ScanFrom(_, _, _, _, _)
ScanFrom(rows, n, r, c, st) ==
    IF st.err.kind # "none" THEN st
    ELSE IF r >= Len(rows) THEN st
    ELSE LET row == rows[r + 1]
         IN  IF c = 0 /\ BadRow(row, n)
             THEN [st EXCEPT !.err = ErrorOf("square", 0, 0)]
             ELSE IF c >= Len(row) THEN ScanFrom(rows, n, r + 1, 0, st)
             ELSE ScanFrom(rows, n, r, c + 1, ScanCell(st, row[c + 1], c, r))

\* Level.parse(description): [err, level]
parse(desc) ==
    LET rows == Split(Trim(desc))
        n == Len(rows)
        st == ScanFrom(rows, n, 0, 0,
                       [seen |-> <<>>, order |-> <<>>, err |-> NoError])
    IN  IF st.err.kind # "none" THEN [err |-> st.err, level |-> NoLevel]
        ELSE IF "R" \notin DOMAIN st.seen
        THEN [err |-> ErrorOf("nomain", 0, 0), level |-> NoLevel]
        ELSE [err |-> NoError,
              level |-> [n |-> n, pieces |-> ObjectValues(st.seen, st.order)]]


(***************************************************************************)
(* Level.pieceAt, Level.canMoveTo                                          *)
(***************************************************************************)
\* Covers testing the origin cell alone
Covers_OriginOnly(piece, x, y) == piece.x = x /\ piece.y = y

\* the predicate handed to Array.prototype.find (lines 209-216)
Covers(piece, x, y) ==
    \/ /\ piece.orientation = VERTICAL
       /\ piece.x = x
       /\ piece.y <= y /\ y < piece.y + piece.size
    \/ /\ piece.orientation = HORIZONTAL
       /\ piece.y = y
       /\ piece.x <= x /\ x < piece.x + piece.size

\* pieceAt with the column and the row exchanged
pieceAt_Transposed(lv, x, y) ==
    LET hits == {i \in 1..Len(lv.pieces) : Covers(lv.pieces[i], y, x)}
    IN  IF hits = {} THEN 0
        ELSE CHOOSE i \in hits : \A j \in hits : i <= j

\* pieceAt(x, y): Array.prototype.find, the index of the first piece covering
\* (x, y); 0 is undefined
pieceAt(lv, x, y) ==
    LET hits == {i \in 1..Len(lv.pieces) : Covers(lv.pieces[i], x, y)}
    IN  IF hits = {} THEN 0
        ELSE CHOOSE i \in hits : \A j \in hits : i <= j

\* canMoveTo without the occupancy test
canMoveTo_BoundsOnly(lv, x, y) ==
    /\ 0 <= x /\ x < lv.n
    /\ 0 <= y /\ y < lv.n

canMoveTo(lv, x, y) ==
    /\ 0 <= x /\ x < lv.n
    /\ 0 <= y /\ y < lv.n
    /\ pieceAt(lv, x, y) = 0

(***************************************************************************)
(* Level.moveByOne: [err, level]                                           *)
(***************************************************************************)
\* Dest taking the piece for one cell long
Dest_IgnoreSize(origin, size, by) == IF by = -1 THEN origin - 1 ELSE origin + 1

\* the coordinate, along the piece's axis, of the cell just past its edge:
\* by == -1 ? origin - 1 : origin + size (lines 238 and 244)
Dest(origin, size, by) == IF by = -1 THEN origin - 1 ELSE origin + size

\* moveByOne shifting a VERTICAL piece along x
moveByOne_AcrossAxis(lv, x, y, by) ==
    IF by # 1 /\ by # -1
    THEN [err |-> ErrorOf("by", 0, 0), level |-> lv]
    ELSE LET i == pieceAt(lv, x, y)
         IN  IF i = 0
             THEN [err |-> ErrorOf("nopiece", x, y), level |-> lv]
             ELSE LET piece == lv.pieces[i]
                  IN  IF piece.orientation = HORIZONTAL
                      THEN LET destX == Dest(piece.x, piece.size, by)
                           IN  IF ~canMoveTo(lv, destX, piece.y)
                               THEN [err |-> ErrorOf("blocked", destX, piece.x),
                                     level |-> lv]
                               ELSE [err |-> NoError,
                                     level |-> [lv EXCEPT !.pieces[i].x = piece.x + by]]
                      ELSE IF piece.orientation = VERTICAL
                      THEN LET destY == Dest(piece.y, piece.size, by)
                           IN  IF ~canMoveTo(lv, piece.x, destY)
                               THEN [err |-> ErrorOf("blocked", piece.x, destY),
                                     level |-> lv]
                               ELSE [err |-> NoError,
                                     level |-> [lv EXCEPT !.pieces[i].x = piece.x + by]]
                      ELSE [err |-> NoError, level |-> lv]

moveByOne(lv, x, y, by) ==
    IF by # 1 /\ by # -1
    THEN [err |-> ErrorOf("by", 0, 0), level |-> lv]
    ELSE LET i == pieceAt(lv, x, y)
         IN  IF i = 0
             THEN [err |-> ErrorOf("nopiece", x, y), level |-> lv]
             ELSE LET piece == lv.pieces[i]
                  IN  IF piece.orientation = HORIZONTAL
                      THEN LET destX == Dest(piece.x, piece.size, by)
                           IN  IF ~canMoveTo(lv, destX, piece.y)
                               THEN [err |-> ErrorOf("blocked", destX, piece.x),
                                     level |-> lv]
                               ELSE [err |-> NoError,
                                     level |-> [lv EXCEPT !.pieces[i].x = piece.x + by]]
                      ELSE IF piece.orientation = VERTICAL
                      THEN LET destY == Dest(piece.y, piece.size, by)
                           IN  IF ~canMoveTo(lv, piece.x, destY)
                               THEN [err |-> ErrorOf("blocked", piece.x, destY),
                                     level |-> lv]
                               ELSE [err |-> NoError,
                                     level |-> [lv EXCEPT !.pieces[i].y = piece.y + by]]
                      ELSE [err |-> NoError, level |-> lv]

(***************************************************************************)
(* Level.move: [err, level, steps], steps the number of moveByOne calls    *)
(* that returned normally                                                  *)
(***************************************************************************)
\* for (let i = 0; i < count; ++i) { this.moveByOne(x, y, by); }
\* run on the outcome so far; a throw ends the loop and the call
RECURSIVE StepLoop(_, _, _, _, _)
StepLoop(acc, x, y, by, count) ==
    IF acc.err.kind # "none" \/ count <= 0 THEN acc
    ELSE LET r == moveByOne(acc.level, x, y, by)
         IN  StepLoop([err |-> r.err, level |-> r.level,
                       steps |-> IF r.err.kind = "none" THEN acc.steps + 1
                                 ELSE acc.steps],
                      x, y, by, count - 1)

\* OffLane testing the coordinate along the axis instead of the one across it
OffLane_Swapped(orientation, x, y, toX, toY) ==
    IF orientation = HORIZONTAL THEN x # toX ELSE y # toY

\* the lane test: y != toY for a HORIZONTAL piece (line 259), x != toX for a
\* VERTICAL one (line 269)
OffLane(orientation, x, y, toX, toY) ==
    IF orientation = HORIZONTAL THEN y # toY ELSE x # toX

\* the bound of the first loop, along the axis: from - to (lines 262, 272)
BackCount(from, to) == from - to

\* ForwardCount with the loop test i <= bound
ForwardCount_Inclusive(from, size, to) == to - (from + size - 1) + 1

\* the bound of the second loop: to - (from + piece.size - 1) (lines 265, 275)
ForwardCount(from, size, to) == to - (from + size - 1)

move(lv, x, y, toX, toY) ==
    LET i == pieceAt(lv, x, y)
        start == [err |-> NoError, level |-> lv, steps |-> 0]
    IN  IF i = 0
        THEN [start EXCEPT !.err = ErrorOf("nopiece", x, y)]
        ELSE LET piece == lv.pieces[i]
             IN  IF piece.orientation = HORIZONTAL
                 THEN IF OffLane(HORIZONTAL, x, y, toX, toY)
                      THEN [start EXCEPT !.err = ErrorOf("lane", 0, 0)]
                      ELSE StepLoop(StepLoop(start, x, y, -1, BackCount(x, toX)),
                                    x, y, 1, ForwardCount(x, piece.size, toX))
                 ELSE IF piece.orientation = VERTICAL
                 THEN IF OffLane(VERTICAL, x, y, toX, toY)
                      THEN [start EXCEPT !.err = ErrorOf("lane", 0, 0)]
                      ELSE StepLoop(StepLoop(start, x, y, -1, BackCount(y, toY)),
                                    x, y, 1, ForwardCount(y, piece.size, toY))
                 ELSE start

(***************************************************************************)
(* Inputs: the descriptions parse is run on                                *)
(***************************************************************************)
GridCells(n) == (0..(n - 1)) \X (0..(n - 1))

\* the ways to fill at most k cells of an n x n grid with names
Layouts(n, names, k) ==
    UNION {[S -> names] :
             S \in {T \in SUBSET GridCells(n) : Cardinality(T) <= k}}

\* the rows of layout f joined by "\n" (rows.join('\n') of the callers)
Render(n, f) ==
    [i \in 1..(n * (n + 1) - 1) |->
        LET r == (i - 1) \div (n + 1)
            c == (i - 1) % (n + 1)
        IN  IF c = n THEN "\n"
            ELSE IF <<c, r>> \in DOMAIN f THEN f[<<c, r>>] ELSE "."]

\* rows.join('\n')
RECURSIVE Join(_)
Join(rows) ==
    IF Len(rows) = 0 THEN <<>>
    ELSE IF Len(rows) = 1 THEN rows[1]
    ELSE rows[1] \o <<"\n">> \o Join(Tail(rows))

DescriptionsOf(names, k) ==
    UNION {{Render(n, f) : f \in Layouts(n, names, k)} : n \in Dims}

\* the layout of the comment above parse and of the specification's scenario
ExampleRows ==
    << <<"W", "W", "E", "E", "E", "B">>,
       <<".", ".", "F", ".", ".", "B">>,
       <<"R", "R", "F", ".", ".", "D">>,
       <<".", ".", "F", ".", ".", "D">>,
       <<"X", "Y", "Y", ".", "Z", ".">>,
       <<"X", ".", ".", ".", "Z", ".">> >>

Example == Join(ExampleRows)

\* a description between blank lines and spaces, which trim removes
Padded(d) == <<"\n", " ">> \o d \o <<" ", "\n">>
\* descriptions that are not square: the last row one cell short, one cell
\* long, and twice as many rows as columns
DropCell(d) == SubSeq(d, 1, Len(d) - 1)
AddCell(d) == d \o <<".">>
AddRows(d) == d \o <<"\n">> \o d

SquareDescriptions == DescriptionsOf(Names, MaxCells)

Descriptions ==
    SquareDescriptions
        \cup {Padded(d) : d \in SquareDescriptions}
        \cup {DropCell(d) : d \in SquareDescriptions}
        \cup {AddCell(d) : d \in SquareDescriptions}
        \cup {AddRows(d) : d \in SquareDescriptions}
        \cup {<<>>, <<" ">>, Example}

\* wider levels: longer pieces with a blocker across the lane, and a
\* description parse accepts with R inside the gap between two cells of A
CuratedRows ==
    { << <<"R", "R", ".", "A">>,
         <<".", ".", ".", "A">>,
         <<".", ".", ".", ".">>,
         <<".", ".", ".", ".">> >>,
      << <<".", ".", ".", ".">>,
         <<".", "A", ".", ".">>,
         <<".", "R", ".", ".">>,
         <<".", "A", ".", ".">> >> }

EngineDescriptions ==
    DescriptionsOf(EngineNames, MaxEngineCells) \cup {Join(rows) : rows \in CuratedRows}

\* the character that names the main piece
MainName == "R"

(***************************************************************************)
(* Game: the parts of the object the handlers read and write.              *)
(***************************************************************************)
CELL_SIZE == 100

\* the keys of the colors table of draw (lines 295-312)
Colors ==
    {"G", "g", "Y", "y", "M", "m", "P", "B", "b", "R", "r", "N", "O", "o", "C", "T"}

\* draw(): throws 'unsupported color' at the first piece without a colour
DrawError(lv) ==
    IF \A i \in 1..Len(lv.pieces) : lv.pieces[i].name \in Colors THEN NoError
    ELSE ErrorOf("color", 0, 0)

\* selectedPiece is the index of the selected piece in level.pieces; Null
\* stands for null and for the undefined pieceAt returns, which the handlers'
\* == null test does not tell apart
Null == 0

\* the fields set by the constructor; callbacks counts the calls of callback
NoGame == [solved |-> FALSE, selectedPiece |-> Null, callbacks |-> 0]

\* Math.floor(pos / CELL_SIZE)
CellOf(pos) == pos \div CELL_SIZE

\* a handler that lets the error of its try block through
Catch_Rethrow(e) == e

\* try { ... } catch (e) { }: what leaves the try statement of onMouseMove when
\* its block ended with error e (NoError: ended normally)
Catch(e) == NoError

\* the test without the comparison of the name
AtExit_AnyName(piece, n) == piece.x = n - piece.size

\* the test that ends onMouseMove (lines 394-395)
AtExit(piece, n) == piece.name = MainName /\ piece.x = n - piece.size

(***************************************************************************)
(* State.  level is the Level object (NoLevel while there is none); game   *)
(* holds the fields of the Game built on it (NoGame while there is none);  *)
(* last records the most recent call or event: its arguments, the level    *)
(* and the game fields before it, the piece found at (x, y) when it        *)
(* started, the error level.move threw, the number of single steps that    *)
(* succeeded, whether a handler called level.move, and the error that left *)
(* the handler; button is the most recent mousedown or mouseup delivered   *)
(* to the Game, with the piece that stood under the pointer.               *)
(***************************************************************************)
NoButton == [op |-> "none", piece |-> Null]

NoCall ==
    [op |-> "none", text |-> <<>>, x |-> 0, y |-> 0, by |-> 0, toX |-> 0,
     toY |-> 0, piece |-> 0, err |-> NoError, steps |-> 0, before |-> NoLevel,
     game |-> NoGame, called |-> FALSE, escaped |-> NoError,
     button |-> NoButton]

\* start cells handed to the calls: the cells of the grid
Cells == GridCells(level.n)

\* targets handed to move from (x, y): the cells of the row and of the column
\* of (x, y), and one cell past each edge
Targets(x, y) ==
    {<<toX, y>> : toX \in -1..level.n} \cup {<<x, toY>> : toY \in -1..level.n}

ByValues == {-1, 1, 2}

\* let level = Level.parse(text)
Parse(text) ==
    \E r \in {parse(text)} :
        /\ level' = r.level
        /\ last' = [NoCall EXCEPT !.op = "parse", !.text = text, !.err = r.err,
                                  !.before = level]
        /\ UNCHANGED game

MoveByOne(x, y, by) ==
    \E r \in {moveByOne(level, x, y, by)} :
        /\ level' = r.level
        /\ last' = [NoCall EXCEPT !.op = "moveByOne", !.x = x, !.y = y, !.by = by,
                                  !.piece = pieceAt(level, x, y), !.err = r.err,
                                  !.steps = IF r.err.kind = "none" THEN 1 ELSE 0,
                                  !.before = level]
        /\ UNCHANGED game

Move(x, y, toX, toY) ==
    \E r \in {move(level, x, y, toX, toY)} :
        /\ level' = r.level
        /\ last' = [NoCall EXCEPT !.op = "move", !.x = x, !.y = y,
                                  !.toX = toX, !.toY = toY,
                                  !.piece = pieceAt(level, x, y), !.err = r.err,
                                  !.steps = r.steps, !.before = level]
        /\ UNCHANGED game

\* the calls made on a constructed level
Calls ==
    \/ \E c \in Cells, by \in ByValues : MoveByOne(c[1], c[2], by)
    \/ \E c \in Cells : \E t \in Targets(c[1], c[2]) :
          Move(c[1], c[2], t[1], t[2])

(***************************************************************************)
(* Spec: the move engine on a level parse returned for one of the          *)
(* enumerated descriptions.                                                *)
(***************************************************************************)
\* the state right after Level.parse(text) returned a Level
Parsed(text) ==
    /\ parse(text).err.kind = "none"
    /\ level = parse(text).level
    /\ last = [NoCall EXCEPT !.op = "parse", !.text = text]
    /\ game = NoGame

Init == \E text \in EngineDescriptions : Parsed(text)

Next == Calls

Spec == Init /\ [][Next]_vars

(***************************************************************************)
(* SpecParse: Level.parse alone, on every enumerated description.          *)
(***************************************************************************)
InitParse == level = NoLevel /\ last = NoCall /\ game = NoGame

NextParse == last.op = "none" /\ \E text \in Descriptions : Parse(text)

SpecParse == InitParse /\ [][NextParse]_vars

(***************************************************************************)
(* SpecExample: the move engine on the example layout, within MaxDrift     *)
(* cells of total displacement from the parsed positions.                  *)
(***************************************************************************)
ExampleLevel == parse(Example).level

\* the Level the comment above parse says the example layout should give
DocumentedLevel ==
    [n |-> 6,
     pieces |->
        << [name |-> "W", x |-> 0, y |-> 0, orientation |-> HORIZONTAL, size |-> 2],
           [name |-> "E", x |-> 2, y |-> 0, orientation |-> HORIZONTAL, size |-> 3],
           [name |-> "B", x |-> 5, y |-> 0, orientation |-> VERTICAL, size |-> 2],
           [name |-> "F", x |-> 2, y |-> 1, orientation |-> VERTICAL, size |-> 3],
           [name |-> "R", x |-> 0, y |-> 2, orientation |-> HORIZONTAL, size |-> 2],
           [name |-> "D", x |-> 5, y |-> 2, orientation |-> VERTICAL, size |-> 2],
           [name |-> "X", x |-> 0, y |-> 4, orientation |-> VERTICAL, size |-> 2],
           [name |-> "Y", x |-> 1, y |-> 4, orientation |-> HORIZONTAL, size |-> 2],
           [name |-> "Z", x |-> 4, y |-> 4, orientation |-> VERTICAL, size |-> 2] >>]

Abs(i) == IF i < 0 THEN -i ELSE i

RECURSIVE DriftFrom(_, _, _)
DriftFrom(ps, qs, i) ==
    IF i > Len(ps) THEN 0
    ELSE Abs(ps[i].x - qs[i].x) + Abs(ps[i].y - qs[i].y) + DriftFrom(ps, qs, i + 1)

Drift == DriftFrom(level.pieces, ExampleLevel.pieces, 1)

InitExample == Parsed(Example)

NextExample == Drift <= MaxDrift /\ Calls

SpecExample == InitExample /\ [][NextExample]_vars

(***************************************************************************)
(* SpecGame: a Game built on a parsed level, driven by mouse events.       *)
(***************************************************************************)
\* wider levels: a description parse accepts with R inside the gap between
\* two cells of B, a two-cell R with a blocker two cells behind it, and a
\* description parse accepts with the head of B inside the gap of R
GameCuratedRows ==
    { << <<".", ".", ".", ".">>,
         <<".", "B", ".", ".">>,
         <<".", "R", ".", ".">>,
         <<".", "B", ".", ".">> >>,
      << <<"B", ".", "R", "R">>,
         <<".", ".", ".", ".">>,
         <<".", ".", ".", ".">>,
         <<".", ".", ".", ".">> >>,
      << <<"R", "B", "R", ".">>,
         <<".", "B", ".", ".">>,
         <<".", ".", ".", ".">>,
         <<".", ".", ".", ".">> >> }

GameDescriptions ==
    DescriptionsOf(GameNames, MaxGameCells) \cup {Join(rows) : rows \in GameCuratedRows}

\* pointer positions relative to the canvas, in pixels: the first and the
\* last pixel of every cell of the grid, on either axis
Offsets == {0, CELL_SIZE - 1}
Pixels == {c * CELL_SIZE + o : c \in 0..(level.n - 1), o \in Offsets}

\* new Game(canvas, lv, callback): solved = false, then onMouseUp() clears the
\* selection and draws; a draw that throws leaves no Game
Constructed(lv) ==
    /\ DrawError(lv).kind = "none"
    /\ level = lv
    /\ game = [solved |-> FALSE, selectedPiece |-> Null, callbacks |-> 0]
    /\ last = [NoCall EXCEPT !.op = "newGame"]

OnMouseDown(px, py) ==
    \E button \in {[op |-> "mousedown",
                     piece |-> pieceAt(level, CellOf(px), CellOf(py))]} :
        IF game.solved
        THEN /\ UNCHANGED <<level, game>>
             /\ last' = [NoCall EXCEPT !.op = "mousedown", !.before = level,
                                       !.game = game, !.button = button]
        ELSE LET x == CellOf(px)
                 y == CellOf(py)
             IN  /\ game' = [game EXCEPT !.selectedPiece = pieceAt(level, x, y)]
                 /\ UNCHANGED level
                 /\ last' = [NoCall EXCEPT !.op = "mousedown", !.x = x, !.y = y,
                                           !.before = level, !.game = game,
                                           !.escaped = DrawError(level),
                                           !.button = button]

\* onMouseUp without the test of solved
OnMouseUp_NoSolvedTest ==
    /\ game' = [game EXCEPT !.selectedPiece = Null]
    /\ UNCHANGED level
    /\ last' = [NoCall EXCEPT !.op = "mouseup", !.before = level,
                              !.game = game, !.escaped = DrawError(level),
                              !.button = [op |-> "mouseup", piece |-> Null]]

OnMouseUp ==
    IF game.solved
    THEN /\ UNCHANGED <<level, game>>
         /\ last' = [NoCall EXCEPT !.op = "mouseup", !.before = level,
                                   !.game = game,
                                   !.button = [op |-> "mouseup", piece |-> Null]]
    ELSE /\ game' = [game EXCEPT !.selectedPiece = Null]
         /\ UNCHANGED level
         /\ last' = [NoCall EXCEPT !.op = "mouseup", !.before = level,
                                   !.game = game, !.escaped = DrawError(level),
                                   !.button = [op |-> "mouseup", piece |-> Null]]

OnMouseMove(px, py) ==
    IF game.solved \/ game.selectedPiece = Null
    THEN /\ UNCHANGED <<level, game>>
         /\ last' = [NoCall EXCEPT !.op = "mousemove", !.before = level,
                                   !.game = game, !.button = last.button]
    ELSE \E fromX \in {level.pieces[game.selectedPiece].x},
            fromY \in {level.pieces[game.selectedPiece].y},
            toX \in {CellOf(px)}, toY \in {CellOf(py)} :
           \E r \in {move(level, fromX, fromY, toX, toY)} :
           \E escaped \in {Catch(IF r.err.kind # "none" THEN r.err
                                  ELSE DrawError(r.level))} :
             /\ level' = r.level
             /\ game' = IF /\ escaped.kind = "none"
                           /\ AtExit(r.level.pieces[game.selectedPiece], r.level.n)
                        THEN [game EXCEPT !.solved = TRUE,
                                          !.callbacks = @ + 1]
                        ELSE game
             /\ last' = [NoCall EXCEPT
                            !.op = "mousemove", !.x = fromX, !.y = fromY,
                            !.toX = toX, !.toY = toY,
                            !.piece = pieceAt(level, fromX, fromY),
                            !.err = r.err, !.steps = r.steps,
                            !.before = level, !.game = game, !.called = TRUE,
                            !.escaped = escaped, !.button = last.button]

InitGame ==
    \E text \in GameDescriptions :
        parse(text).err.kind = "none" /\ Constructed(parse(text).level)

NextGame ==
    \/ \E px, py \in Pixels : OnMouseDown(px, py)
    \/ OnMouseUp
    \/ \E px, py \in Pixels : OnMouseMove(px, py)

SpecGame == InitGame /\ [][NextGame]_vars

(***************************************************************************)
(* Vocabulary of the properties.                                           *)
(***************************************************************************)
\* the cells a piece occupies: size consecutive cells from its origin along
\* its orientation
CellsOf(p) ==
    IF p.orientation = HORIZONTAL
    THEN {<<p.x + k, p.y>> : k \in 0..(p.size - 1)}
    ELSE {<<p.x, p.y + k>> : k \in 0..(p.size - 1)}

Indices(lv) == 1..Len(lv.pieces)

InGrid(lv) == \A i \in Indices(lv) : CellsOf(lv.pieces[i]) \subseteq GridCells(lv.n)

NoOverlap(lv) ==
    \A i, j \in Indices(lv) :
        i # j => CellsOf(lv.pieces[i]) \cap CellsOf(lv.pieces[j]) = {}

WellFormed(lv) == InGrid(lv) /\ NoOverlap(lv)

\* cell c of lv is inside the grid and occupied by no piece
Free(lv, c) ==
    /\ c \in GridCells(lv.n)
    /\ \A i \in Indices(lv) : c \notin CellsOf(lv.pieces[i])

\* the coordinate of piece p along its own axis
Along(p) == IF p.orientation = HORIZONTAL THEN p.x ELSE p.y

\* lv with piece i shifted by d cells along its own axis
Shifted(lv, i, d) ==
    IF lv.pieces[i].orientation = HORIZONTAL
    THEN [lv EXCEPT !.pieces[i].x = @ + d]
    ELSE [lv EXCEPT !.pieces[i].y = @ + d]

\* the cell k cells past the edge of piece p in direction dir (k >= 1)
Past(p, dir, k) ==
    LET a == IF dir = -1 THEN Along(p) - k ELSE Along(p) + p.size - 1 + k
    IN  IF p.orientation = HORIZONTAL THEN <<a, p.y>> ELSE <<p.x, a>>

\* the number of free cells between piece i and the first obstacle or grid
\* edge in direction dir
FreeRun(lv, i, dir) ==
    LET ks == {k \in 0..lv.n :
                 \A m \in 1..k : Free(lv, Past(lv.pieces[i], dir, m))}
    IN  CHOOSE k \in ks : \A m \in ks : m <= k

IsMove == last.op = "move"
IsStep == last.op = "moveByOne"
Found == last.piece # 0
\* the piece the last call found at (x, y), before and after the call
PieceBefore == last.before.pieces[last.piece]
PieceAfter == level.pieces[last.piece]
\* the last call's start cell and target, along the axis of the piece found
FromAlong == IF PieceBefore.orientation = HORIZONTAL THEN last.x ELSE last.y
ToAlong == IF PieceBefore.orientation = HORIZONTAL THEN last.toX ELSE last.toY
OnLane ==
    IF PieceBefore.orientation = HORIZONTAL THEN last.toY = PieceBefore.y
    ELSE last.toX = PieceBefore.x

(***************************************************************************)
(* C1.  A moveByOne or move call made on a level whose pieces all lie      *)
(* inside the grid and do not overlap leaves every piece inside the grid   *)
(* and no two pieces overlapping, whatever its arguments and whether or    *)
(* not it throws (part-way or at once).  With the parsed level well        *)
(* formed, this holds after any sequence of calls.                         *)
(***************************************************************************)
C1_GridInvariant ==
    ((IsMove \/ IsStep) /\ WellFormed(last.before)) => WellFormed(level)

\* a move that stepped at least once and then threw, on a well-formed level
C1_Witness ==
    /\ IsMove /\ WellFormed(last.before)
    /\ last.err.kind # "none" /\ last.steps >= 1
    /\ level # last.before

(***************************************************************************)
(* C2.  move(x, y, toX, toY) called on the origin (x, y) of a piece, with  *)
(* the target on the piece's axis and every cell the piece must sweep over *)
(* inside the grid and unoccupied, returns without error and leaves the    *)
(* origin at (toX, y) (HORIZONTAL) or (x, toY) (VERTICAL); pieceAt then    *)
(* reports the piece on its new cells.                                     *)
(***************************************************************************)
\* the cells the piece found must sweep over to bring its origin to the target
SweepCells ==
    LET p == PieceBefore
        lo == IF ToAlong < Along(p) THEN ToAlong ELSE Along(p)
        hi == (IF ToAlong < Along(p) THEN Along(p) ELSE ToAlong) + p.size - 1
        lane == IF p.orientation = HORIZONTAL
                THEN {<<a, p.y>> : a \in lo..hi}
                ELSE {<<p.x, a>> : a \in lo..hi}
    IN  lane \ CellsOf(p)

C2_Unobstructed ==
    /\ IsMove /\ Found
    /\ last.x = PieceBefore.x /\ last.y = PieceBefore.y
    /\ OnLane
    /\ \A c \in SweepCells : Free(last.before, c)

C2_RoundTrip ==
    C2_Unobstructed =>
        /\ last.err.kind = "none"
        /\ level = Shifted(last.before, last.piece, ToAlong - Along(PieceBefore))
        /\ \A c \in CellsOf(PieceAfter) : pieceAt(level, c[1], c[2]) = last.piece

(***************************************************************************)
(* C3.  Whenever a move call on a piece, with the target on the piece's    *)
(* axis, fails after k >= 0 successful single steps, the piece ends k      *)
(* cells toward the target, every other piece is unchanged, the error is   *)
(* the blocked-move error, and k is the number of free cells between the   *)
(* piece and the first obstacle or grid edge on its path.                  *)
(***************************************************************************)
\* the direction of travel of the last move
TravelDir == IF ToAlong < FromAlong THEN -1 ELSE 1

C3_Obstruction ==
    (IsMove /\ Found /\ OnLane /\ last.err.kind # "none") =>
        /\ last.err.kind = "blocked"
        /\ last.steps = FreeRun(last.before, last.piece, TravelDir)
        /\ level = Shifted(last.before, last.piece, TravelDir * last.steps)

(***************************************************************************)
(* C4.  On the example level, move(0, 2, 2, 2) fails with the blocked-move *)
(* error.  As stated: after exactly one successful step, leaving R's       *)
(* origin at (1, 2).  As the code behaves: R occupies (0,2) and (1,2) and  *)
(* F occupies (2,2), so the very first step is blocked: no step succeeds   *)
(* and R's origin stays (0, 2).                                            *)
(***************************************************************************)
\* the index of the piece called name
PieceNamed(lv, name) == CHOOSE i \in Indices(lv) : lv.pieces[i].name = name

C4_Call ==
    /\ IsMove /\ last.before = ExampleLevel
    /\ last.x = 0 /\ last.y = 2 /\ last.toX = 2 /\ last.toY = 2

\* the claim as stated
C4_OneStep ==
    C4_Call =>
        /\ last.err.kind = "blocked"
        /\ last.steps = 1
        /\ level.pieces[PieceNamed(level, "R")].x = 1
        /\ level.pieces[PieceNamed(level, "R")].y = 2

\* the claim as amended
C4_NoStep ==
    C4_Call =>
        /\ last.err.kind = "blocked"
        /\ last.steps = 0
        /\ level.pieces[PieceNamed(level, "R")].x = 0
        /\ level.pieces[PieceNamed(level, "R")].y = 2
        /\ level = ExampleLevel

C4_Witness == C4_Call /\ last.err.kind = "blocked"

(***************************************************************************)
(* C5.  The zero-step move.  As stated: for every cell (x, y),             *)
(* move(x, y, x, y) never throws and never changes a position.  As the     *)
(* code behaves: it never changes a position; it returns normally when a   *)
(* piece occupies (x, y) and throws the no-piece error when none does.     *)
(***************************************************************************)
C5_Call == IsMove /\ last.toX = last.x /\ last.toY = last.y

\* the claim as stated
C5_ZeroMoveAnyCell ==
    C5_Call => (last.err.kind = "none" /\ level = last.before)

\* the claim as amended
C5_ZeroMoveOnPiece ==
    C5_Call =>
        /\ level = last.before
        /\ Found => last.err.kind = "none"
        /\ ~Found => last.err.kind = "nopiece"

\* a zero-step move that returned normally, on a cell of a piece other than
\* the piece's origin
C5_Witness ==
    /\ C5_Call /\ Found /\ last.err.kind = "none"
    /\ <<last.x, last.y>> # <<PieceBefore.x, PieceBefore.y>>

(***************************************************************************)
(* C6.  parse throws for every square description in which the cells       *)
(* holding some character do not all lie in one row or all in one column.  *)
(***************************************************************************)
TextRows(text) == Split(Trim(text))

Square(text) ==
    LET rows == TextRows(text)
    IN  \A r \in 1..Len(rows) : Len(rows[r]) = Len(rows)

\* the cells of a square description that hold character ch
CharCells(text, ch) ==
    LET rows == TextRows(text)
    IN  {c \in GridCells(Len(rows)) : rows[c[2] + 1][c[1] + 1] = ch}

\* the piece characters of a square description
NamesIn(text) ==
    LET rows == TextRows(text)
    IN  {rows[c[2] + 1][c[1] + 1] : c \in GridCells(Len(rows))} \ {"."}

Straight(S) ==
    \/ \A a, b \in S : a[2] = b[2]
    \/ \A a, b \in S : a[1] = b[1]

C6_RejectsNonStraight ==
    (/\ last.op = "parse"
     /\ Square(last.text)
     /\ \E ch \in NamesIn(last.text) : ~Straight(CharCells(last.text, ch)))
        => (last.err.kind # "none" /\ level = NoLevel)

(***************************************************************************)
(* C7.  For every description parse accepts, each piece occupies exactly   *)
(* the cells that hold its character; so every piece lies inside the grid, *)
(* no two pieces overlap, and pieceAt on the fresh level returns the piece *)
(* named by the character at a cell, or nothing where it is '.'.           *)
(***************************************************************************)
C7_ParseOccupancy ==
    (last.op = "parse" /\ last.err.kind = "none") =>
        /\ \A i \in Indices(level) :
              CellsOf(level.pieces[i]) = CharCells(last.text, level.pieces[i].name)
        /\ WellFormed(level)
        /\ LET rows == TextRows(last.text)
           IN  \A c \in GridCells(level.n) :
                  LET ch == rows[c[2] + 1][c[1] + 1]
                      i == pieceAt(level, c[1], c[2])
                  IN  IF ch = "." THEN i = 0
                      ELSE i # 0 /\ level.pieces[i].name = ch

(***************************************************************************)
(* C8.  In every state reachable from a parsed level, pieceAt returns P    *)
(* for every cell of every piece P, and nothing for every cell outside all *)
(* pieces.                                                                 *)
(***************************************************************************)
C8_PieceAtExact ==
    /\ \A i \in Indices(level) : \A c \in CellsOf(level.pieces[i]) :
          pieceAt(level, c[1], c[2]) = i
    /\ \A c \in (-1..level.n) \X (-1..level.n) :
          (\A i \in Indices(level) : c \notin CellsOf(level.pieces[i]))
              => pieceAt(level, c[1], c[2]) = 0

(***************************************************************************)
(* C9.  moveByOne(x, y, by), by in {-1, 1}, on a cell holding piece P      *)
(* succeeds iff the cell just past P's edge in direction by along P's axis *)
(* is inside the grid and unoccupied; on success P's origin changes by     *)
(* exactly by along that axis and nothing else changes; otherwise the      *)
(* blocked-move error is thrown and no position changes.                   *)
(***************************************************************************)
C9_Call == IsStep /\ last.by \in {-1, 1} /\ Found

C9_SingleStep ==
    C9_Call =>
        IF Free(last.before, Past(PieceBefore, last.by, 1))
        THEN /\ last.err.kind = "none"
             /\ level = Shifted(last.before, last.piece, last.by)
        ELSE /\ last.err.kind = "blocked"
             /\ level = last.before

\* a forward step of a piece longer than one cell that succeeded
C9_Witness ==
    /\ C9_Call /\ last.by = 1 /\ PieceBefore.size >= 2
    /\ last.err.kind = "none"
    /\ level # last.before

(***************************************************************************)
(* C10.  move(x, y, toX, toY) on a HORIZONTAL piece with toY off the       *)
(* piece's row, or on a VERTICAL piece with toX off the piece's column,    *)
(* throws the axis-violation error before any step is taken, and leaves    *)
(* every position unchanged.                                               *)
(***************************************************************************)
C10_AxisViolation ==
    (IsMove /\ Found /\ ~OnLane) =>
        /\ last.err.kind = "lane"
        /\ last.steps = 0
        /\ level = last.before

\* an off-lane move of a VERTICAL piece whose target cell is free
C10_Witness ==
    /\ IsMove /\ Found /\ ~OnLane
    /\ PieceBefore.orientation = VERTICAL
    /\ Free(last.before, <<last.toX, last.toY>>)
    /\ last.err.kind = "lane"

(***************************************************************************)
(* C11.  move and moveByOne (by in {-1, 1}) called on a cell that no piece *)
(* occupies throw the no-piece error and leave every position unchanged;   *)
(* a call whose start cell is occupied never raises the no-piece error.    *)
(***************************************************************************)
C11_Call == IsMove \/ (IsStep /\ last.by \in {-1, 1})

C11_NoPieceExact ==
    C11_Call =>
        /\ ~Found => (last.err.kind = "nopiece" /\ level = last.before)
        /\ Found => last.err.kind # "nopiece"

(***************************************************************************)
(* C12.  parse throws, and produces no Level, for every description in     *)
(* which, after trimming, some row's length differs from the number of     *)
(* rows, and for every square description that holds no 'R' cell.          *)
(***************************************************************************)
C12_Case ==
    /\ last.op = "parse"
    /\ IF Square(last.text) THEN "R" \notin NamesIn(last.text) ELSE TRUE

C12_RejectsMalformed ==
    C12_Case => (last.err.kind # "none" /\ level = NoLevel)

\* a description with an 'R' cell and a last row one cell short, rejected
\* for not being square
C12_Witness ==
    /\ last.op = "parse"
    /\ \E d \in SquareDescriptions :
          last.text = DropCell(d) /\ \E k \in 1..Len(d) : d[k] = "R"
    /\ ~Square(last.text)
    /\ last.err.kind = "square"
    /\ level = NoLevel

(***************************************************************************)
(* C13.  Parsing the 6x6 example yields n = 6 and exactly the nine pieces  *)
(* of the comment above parse, in the order W, E, B, F, R, D, X, Y, Z: R   *)
(* is HORIZONTAL of size 2 at (0, 2) and is the one piece carrying the     *)
(* main piece's name; F is VERTICAL of size 3 at (2, 1).                   *)
(***************************************************************************)
C13_Call == last.op = "parse" /\ last.text = Example

C13_ExampleParse ==
    C13_Call =>
        /\ last.err.kind = "none"
        /\ level.n = 6
        /\ Len(level.pieces) = 9
        /\ [i \in 1..9 |-> level.pieces[i].name]
              = <<"W", "E", "B", "F", "R", "D", "X", "Y", "Z">>
        /\ level.pieces[5] = [name |-> "R", x |-> 0, y |-> 2,
                              orientation |-> HORIZONTAL, size |-> 2]
        /\ {i \in Indices(level) : level.pieces[i].name = MainName} = {5}
        /\ level.pieces[4] = [name |-> "F", x |-> 2, y |-> 1,
                              orientation |-> VERTICAL, size |-> 3]
        /\ level = DocumentedLevel

\* the example layout has been parsed and a Level returned
C13_Witness == C13_Call /\ level # NoLevel /\ level.n = 6

(***************************************************************************)
(* C14.  On the freshly parsed example level, pieceAt(0, 2) and            *)
(* pieceAt(1, 2) return R.  As stated: pieceAt(2, 2) returns no piece.  As *)
(* the code behaves: row 2 of the layout is RRF..D, so (2, 2) is the       *)
(* middle cell of F and pieceAt(2, 2) returns F.                           *)
(***************************************************************************)
C14_Fresh == last.op = "parse" /\ last.text = Example /\ last.err.kind = "none"

\* the claim as stated
C14_EmptyAtF ==
    C14_Fresh =>
        /\ pieceAt(level, 0, 2) = PieceNamed(level, "R")
        /\ pieceAt(level, 1, 2) = PieceNamed(level, "R")
        /\ pieceAt(level, 2, 2) = 0

\* the claim as amended
C14_PieceAtExample ==
    C14_Fresh =>
        /\ pieceAt(level, 0, 2) = PieceNamed(level, "R")
        /\ pieceAt(level, 1, 2) = PieceNamed(level, "R")
        /\ pieceAt(level, 2, 2) = PieceNamed(level, "F")

\* the fresh example level, on which pieceAt finds a piece at (2, 2)
C14_Witness == C14_Fresh /\ pieceAt(level, 2, 2) # 0

(***************************************************************************)
(* C18.  Across any moveByOne or move call, n, the number of pieces and    *)
(* each piece's name, size and orientation do not change; a moveByOne that *)
(* returns normally changes exactly one coordinate of exactly one piece,   *)
(* the one along that piece's axis, and leaves the other untouched.        *)
(***************************************************************************)
C18_Call == IsMove \/ IsStep

\* piece i differs between the level before the last call and the level now
Moved(i) == level.pieces[i] # last.before.pieces[i]

C18_OnlyRepositions ==
    C18_Call =>
        /\ level.n = last.before.n
        /\ Len(level.pieces) = Len(last.before.pieces)
        /\ \A i \in Indices(level) :
              /\ level.pieces[i].name = last.before.pieces[i].name
              /\ level.pieces[i].size = last.before.pieces[i].size
              /\ level.pieces[i].orientation = last.before.pieces[i].orientation
        /\ (IsStep /\ last.err.kind = "none") =>
              \E i \in Indices(level) :
                  /\ \A j \in Indices(level) : Moved(j) <=> j = i
                  /\ LET p == last.before.pieces[i]
                         q == level.pieces[i]
                     IN  IF p.orientation = HORIZONTAL
                         THEN q.x # p.x /\ q.y = p.y
                         ELSE q.y # p.y /\ q.x = p.x

\* a single step of a VERTICAL piece that returned normally, on a level with
\* more than one piece
C18_Witness ==
    /\ IsStep /\ last.err.kind = "none" /\ Found
    /\ PieceBefore.orientation = VERTICAL
    /\ Len(level.pieces) >= 2
    /\ Moved(last.piece)

(***************************************************************************)
(* C19.  The pieces of the Level parse returns are in first-seen order:    *)
(* the order in which their characters first occur in the description,     *)
(* read row by row, for letters and digits alike.                          *)
(***************************************************************************)
\* the piece characters of s in the order of their first occurrence
RECURSIVE FirstSeenFrom(_, _, _)
FirstSeenFrom(s, i, acc) ==
    IF i > Len(s) THEN acc
    ELSE IF s[i] \in {".", "\n"} \/ \E k \in 1..Len(acc) : acc[k] = s[i]
    THEN FirstSeenFrom(s, i + 1, acc)
    ELSE FirstSeenFrom(s, i + 1, Append(acc, s[i]))

C19_FirstSeenOrder ==
    (last.op = "parse" /\ last.err.kind = "none") =>
        [i \in 1..Len(level.pieces) |-> level.pieces[i].name]
            = FirstSeenFrom(Trim(last.text), 1, <<>>)

(***************************************************************************)
(* C20.  Within one move call only the piece found at (x, y) when the call *)
(* started can change position, and every step that succeeds is a step of  *)
(* that piece in one and the same direction: the piece ends displaced by   *)
(* the number of successful steps, backward or forward, and once it has    *)
(* left (x, y) no other piece is stepped in its place.                     *)
(***************************************************************************)
C20_MoveFrame ==
    IsMove =>
        IF ~Found THEN level = last.before /\ last.steps = 0
        ELSE \E d \in {-1, 1} :
                level = Shifted(last.before, last.piece, d * last.steps)

(***************************************************************************)
(* C15.  Over any sequence of mousedown, mousemove and mouseup events on a *)
(* Game, the solved callback is called at most once, and an event calls it *)
(* only when it leaves the main piece R with x = n - size.                 *)
(***************************************************************************)
\* the main piece of the level stands at x = n - size
MainAtExit ==
    \E i \in Indices(level) :
        /\ level.pieces[i].name = MainName
        /\ level.pieces[i].x = level.n - level.pieces[i].size

\* the last event called the callback
CallbackFired == game.callbacks # last.game.callbacks

C15_OneShotCallback ==
    /\ game.callbacks <= 1
    /\ CallbackFired => MainAtExit

\* a mousemove that arrived, with a piece still selected, after the callback
\* had been called
C15_Witness ==
    /\ last.op = "mousemove"
    /\ last.game.solved /\ last.game.callbacks = 1
    /\ last.game.selectedPiece # Null
    /\ game.callbacks = 1

(***************************************************************************)
(* C16.  Whenever the level.move call made by Game.onMouseMove throws, the *)
(* error does not leave the handler.  As stated: and every piece's         *)
(* position after the handler equals its position before.  As the code     *)
(* behaves: the single steps that succeeded before the throw are kept, so  *)
(* the positions are as before exactly when no step had succeeded.         *)
(***************************************************************************)
C16_Call == last.op = "mousemove" /\ last.called /\ last.err.kind # "none"

\* the claim as stated
C16_FailedDragNoOp ==
    C16_Call => (last.escaped.kind = "none" /\ level = last.before)

\* the claim as amended
C16_FailedDragKeepsSteps ==
    C16_Call =>
        /\ last.escaped.kind = "none"
        /\ level = last.before <=> last.steps = 0
        /\ game.selectedPiece = last.game.selectedPiece

\* a drag that was blocked after at least one step, on a level without
\* overlapping pieces: the selected piece stays where the steps took it
C16_Witness ==
    /\ C16_Call /\ WellFormed(last.before)
    /\ last.err.kind = "blocked"
    /\ last.steps >= 1
    /\ level = Shifted(last.before, last.game.selectedPiece, TravelDir * last.steps)
    /\ level # last.before

(***************************************************************************)
(* C17.  In every reachable state of a Game, if the main piece R stands at *)
(* x = n - size then solved is true.                                       *)
(***************************************************************************)
C17_WinDetected == MainAtExit => game.solved

(***************************************************************************)
(* C21.  solved is absorbing: once the solved flag of a Game is true it    *)
(* stays true, and no later mousedown, mousemove or mouseup changes the    *)
(* position of any piece or the selected piece.                            *)
(***************************************************************************)
C21_SolvedAbsorbing ==
    [][game.solved =>
          /\ game'.solved
          /\ level' = level
          /\ game'.selectedPiece = game.selectedPiece]_vars

\* a mousedown or mouseup that arrived after the Game was solved, with the
\* main piece still selected
C21_Witness ==
    /\ last.op \in {"mousedown", "mouseup"}
    /\ last.game.solved
    /\ game.solved
    /\ game.selectedPiece # Null
    /\ level.pieces[game.selectedPiece].name = MainName

(***************************************************************************)
(* C22.  Pieces move only during a drag: mousedown and mouseup never       *)
(* change the position of a piece; a mousemove changes a position only if  *)
(* the most recent button event was a mousedown on an occupied cell, and   *)
(* then only the piece that mousedown selected changes position.           *)
(***************************************************************************)
C22_OnlyDuringDrag ==
    /\ last.op \in {"mousedown", "mouseup"} => level = last.before
    /\ (last.op = "mousemove" /\ level # last.before) =>
          /\ last.button.op = "mousedown"
          /\ last.button.piece # Null
          /\ \A j \in Indices(level) : Moved(j) => j = last.button.piece

=============================================================================
